---- MODULE Spec2Model ----
(***************************************************************************)
(* A model of the ds18b20 thermometer driver: the CRC8 codec (crc8.rs),    *)
(* the scratchpad codec (scratchpad.rs), the 1-Wire address (onewire.rs)   *)
(* and the typestate command protocol Ds18b20Driver / Rom / Ram (lib.rs).  *)
(*                                                                         *)
(* Three specifications share the variables:                               *)
(*   Spec       the driver facade and its phase objects over a transport   *)
(*              whose calls may fail and whose reads return any buffer;    *)
(*   SpecCrc    the pure functions of crc8.rs applied to drawn inputs;     *)
(*   SpecCodec  the pure functions of scratchpad.rs applied to drawn       *)
(*              inputs.                                                    *)
(***************************************************************************)
EXTENDS Integers, Sequences, FiniteSets, TLC

VARIABLES
    phase,   \* the phase object the caller holds: "Idle" (none), "Rom", "Ram"
    trace,   \* every transport call issued so far, in order
    mark,    \* Len(trace) when the last operation was entered
    ret,     \* what the last operation returned
    reserved, \* events reserved by the operations started so far
    iter,    \* what the transport's search will still yield to the iterator held
    input,   \* the argument drawn for a pure function (SpecCrc, SpecCodec)
    output   \* what the pure function returned

vars == <<phase, trace, mark, ret, reserved, iter, input, output>>
driverVars == <<phase, trace, mark, ret, reserved, iter>>
pureVars == <<input, output>>

(***************************************************************************)
(* Bounds of the model.                                                    *)
(***************************************************************************)
\* longest exhaustively drawn CRC input over SampleBytes
MaxLen == 3
\* transport calls (with the sleeps, and the panic that ends a run) a run
\* of the facade may reserve
MaxReserved == 8
\* devices (or errors) one search of the bus yields
MaxFound == 2

(***************************************************************************)
(* u8 and its operators.                                                   *)
(***************************************************************************)
Byte == 0..255

\* a slip: the byte is added into the register, not XORed
Add8(a, b) == (a + b) % 256

\* a ^ b on n-bit operands
RECURSIVE XorBits(_, _, _)
XorBits(a, b, n) ==
    IF n = 0 THEN 0
    ELSE (((a % 2) + (b % 2)) % 2) + 2 * XorBits(a \div 2, b \div 2, n - 1)

\* u8::BITS
U8_BITS == 8

Xor8(a, b) == XorBits(a, b, U8_BITS)

\* a as i8 / a as u8
\* a slip: the byte is widened as it is, 0x80..0xFF stay positive
AsI8Unsigned(b) == b

AsI8(b) == IF b >= 128 THEN b - 256 ELSE b
AsU8(i) == i % 256

(***************************************************************************)
(* Results and errors (error.rs).                                          *)
(***************************************************************************)
Ok(v) == [kind |-> "Ok", val |-> v]
Err(e) == [kind |-> "Err", val |-> e]
IsOk(r) == r.kind = "Ok"
IsErr(r) == r.kind = "Err"

EspError == [err |-> "Esp"]
CrcError(crc) == [err |-> "Crc", crc |-> crc]
FamilyCodeError(code) == [err |-> "FamilyCode", family_code |-> code]
ConfigurationRegisterError(b) ==
    [err |-> "ConfigurationRegister", configuration_register |-> b]
Unit == [unit |-> TRUE]
\* todo!(): the call does not return, the thread panics
Panic == [kind |-> "Panic", message |-> "not yet implemented"]
None == [kind |-> "None"]

(***************************************************************************)
(* crc8.rs                                                                 *)
(***************************************************************************)
\* feedback mask 0b1000_1100
FEEDBACK_MASK == 140

\* a slip: the mask of another polynomial (0b1000_0100)
FeedbackWrongMask(crc) ==
    LET bit == crc % 2
        shifted == crc \div 2
    IN  IF bit # 0 THEN Xor8(shifted, 132) ELSE shifted

\* one pass of the inner loop: bit = crc & 1; crc >>= 1; if bit != 0 { crc ^= mask }
Feedback(crc) ==
    LET bit == crc % 2
        shifted == crc \div 2
    IN  IF bit # 0 THEN Xor8(shifted, FEEDBACK_MASK) ELSE shifted

\* for _ in 0..u8::BITS { ... }
RECURSIVE Shifts(_, _)
Shifts(crc, n) == IF n = 0 THEN crc ELSE Shifts(Feedback(crc), n - 1)

\* the inner loop's result for each value of the register, tabulated
ShiftTable == [crc \in Byte |-> Shifts(crc, U8_BITS)]

\* for byte in data { crc ^= byte; for _ in 0..u8::BITS {...} } crc
RECURSIVE calculate_with_initial(_, _)
calculate_with_initial(crc, data) ==
    IF data = <<>> THEN crc
    ELSE calculate_with_initial(ShiftTable[Xor8(crc, Head(data))], Tail(data))

calculate(data) == calculate_with_initial(0, data)

\* a slip: the error carries the CRC of the data without its last byte
checkExcludesLast(data) ==
    LET crc == calculate(data)
    IN  IF crc = 0 THEN Ok(Unit)
        ELSE Err(CrcError(calculate(SubSeq(data, 1, Len(data) - 1))))

\* match calculate(data) { 0 => Ok(()), crc => Err(CrcError { crc }) }
check(data) ==
    LET crc == calculate(data)
    IN  IF crc = 0 THEN Ok(Unit) ELSE Err(CrcError(crc))

(***************************************************************************)
(* The LFSR drawn in calculate_with_initial's documentation, fed one input *)
(* bit at a time, least significant bit first: the feedback bit is         *)
(* register bit 0 XOR the input bit; the register shifts right; the        *)
(* feedback bit enters at bit 7 and is XORed into bits 3 and 2.            *)
(***************************************************************************)
FlipBit(x, k) == IF (x \div (2 ^ k)) % 2 = 1 THEN x - 2 ^ k ELSE x + 2 ^ k

LfsrBit(reg, inbit) ==
    LET feedback == ((reg % 2) + inbit) % 2
        shifted == reg \div 2
    IN  IF feedback = 1 THEN FlipBit(FlipBit(shifted + 128, 3), 2) ELSE shifted

RECURSIVE LfsrBits(_, _, _)
LfsrBits(reg, byte, n) ==
    IF n = 0 THEN reg
    ELSE LfsrBits(LfsrBit(reg, byte % 2), byte \div 2, n - 1)

RECURSIVE LfsrFrom(_, _)
LfsrFrom(reg, data) ==
    IF data = <<>> THEN reg
    ELSE LET next == LfsrBits(reg, Head(data), 8)
         IN  IF next \in Byte THEN LfsrFrom(next, Tail(data)) ELSE next

RefCrc(data) == LfsrFrom(0, data)

(***************************************************************************)
(* SpecCrc: calculate and check applied to drawn byte sequences.  A caller *)
(* may append the CRC it computed to the data and run the functions again. *)
(***************************************************************************)
\* the regression vectors of crc8.rs's tests, without their CRC byte
Vectors ==
    { <<99, 1, 75, 70, 127, 255, 13, 16>>,
      <<97, 1, 75, 70, 127, 255, 15, 16>>,
      <<95, 1, 75, 70, 127, 255, 1, 16>> }

SampleBytes == {0, 1, 140, 255}

RECURSIVE SeqsUpTo(_, _)
SeqsUpTo(S, n) ==
    IF n = 0 THEN {<<>>}
    ELSE LET shorter == SeqsUpTo(S, n - 1)
         IN  shorter \cup {Append(s, b) : s \in {t \in shorter : Len(t) = n - 1}, b \in S}

CrcInputs ==
    Vectors \cup {<<b>> : b \in Byte} \cup SeqsUpTo(SampleBytes, MaxLen)

InitCrc ==
    /\ input \in {[data |-> d, sealed |-> FALSE] : d \in CrcInputs}
    /\ output = None
    /\ phase = "Idle" /\ trace = <<>> /\ mark = 0 /\ ret = None /\ reserved = 0 /\ iter = <<>>

Calculate ==
    /\ output' = [op |-> "calculate", val |-> calculate(input.data)]
    /\ UNCHANGED <<input, driverVars>>

Check ==
    /\ output' = [op |-> "check", val |-> check(input.data)]
    /\ UNCHANGED <<input, driverVars>>

\* the caller appends the byte calculate returned to the data
AppendCrc ==
    /\ output # None
    /\ output.op = "calculate"
    /\ ~input.sealed
    /\ input' = [data |-> Append(input.data, output.val), sealed |-> TRUE]
    /\ output' = None
    /\ UNCHANGED driverVars

NextCrc == Calculate \/ Check \/ AppendCrc

SpecCrc == InitCrc /\ [][NextCrc]_vars

(***************************************************************************)
(* Claims about crc8.rs, checked under SpecCrc.                            *)
(***************************************************************************)
\* C4: for every byte sequence d, the empty one included, appending
\* calculate(d) to d makes calculate return 0.
C4_AppendedCrcIsZero ==
    (input.sealed /\ output # None /\ output.op = "calculate") => output.val = 0

C4_Witness ==
    /\ input.sealed
    /\ input.data = <<99, 1, 75, 70, 127, 255, 13, 16, 21>>
    /\ output # None /\ output.op = "calculate" /\ output.val = 0

\* C5: check(data) is Ok iff calculate(data) = 0; otherwise it is the
\* CrcError whose crc is calculate(data), which is never 0.
C5_CheckIffZero ==
    (output # None /\ output.op = "check") =>
        LET crc == calculate(input.data)
        IN  /\ IsOk(output.val) <=> crc = 0
            /\ crc # 0 => output.val = Err(CrcError(crc))
            /\ IsErr(output.val) => output.val.val.crc # 0

C5_Witness ==
    /\ input.data = <<97, 1, 75, 70, 127, 255, 15, 16>>
    /\ output # None /\ output.op = "check"
    /\ output.val = Err(CrcError(2))

\* C6: calculate(data) is the bit-serial CRC with seed 0 and feedback mask
\* 0x8C; the three regression vectors give 21, 2 and 155; the register
\* stays within 0..255.
C6_BitSerialCrc ==
    /\ \A crc \in Byte : Feedback(crc) \in Byte
    /\ (output # None /\ output.op = "calculate") =>
        /\ output.val = RefCrc(input.data)
        /\ output.val \in Byte
        /\ input.data = <<99, 1, 75, 70, 127, 255, 13, 16>> => output.val = 21
        /\ input.data = <<97, 1, 75, 70, 127, 255, 15, 16>> => output.val = 2
        /\ input.data = <<95, 1, 75, 70, 127, 255, 1, 16>> => output.val = 155

C6_Witness ==
    /\ input.data = <<95, 1, 75, 70, 127, 255, 1, 16>>
    /\ output # None /\ output.op = "calculate" /\ output.val = 155

(***************************************************************************)
(* scratchpad.rs                                                           *)
(***************************************************************************)
NINE == 31
TEN == 63
ELEVEN == 95
TWELVE == 127

Resolution == {"Nine", "Ten", "Eleven", "Twelve"}

ConfigurationRegister(resolution) == [resolution |-> resolution]

\* a slip: only the resolution bits are compared, bit 7 is ignored
TryFromIgnoresTopBit(value) ==
    LET low == value % 128
    IN  CASE low = NINE -> Ok(ConfigurationRegister("Nine"))
          [] low = TEN -> Ok(ConfigurationRegister("Ten"))
          [] low = ELEVEN -> Ok(ConfigurationRegister("Eleven"))
          [] low = TWELVE -> Ok(ConfigurationRegister("Twelve"))
          [] OTHER -> Err(ConfigurationRegisterError(value))

\* impl TryFrom<u8> for ConfigurationRegister
TryFrom(value) ==
    CASE value = NINE -> Ok(ConfigurationRegister("Nine"))
      [] value = TEN -> Ok(ConfigurationRegister("Ten"))
      [] value = ELEVEN -> Ok(ConfigurationRegister("Eleven"))
      [] value = TWELVE -> Ok(ConfigurationRegister("Twelve"))
      [] OTHER -> Err(ConfigurationRegisterError(value))

\* a slip: Ten is given the pattern of Nine
IntoU8TenAsNine(value) ==
    CASE value.resolution = "Nine" -> NINE
      [] value.resolution = "Ten" -> NINE
      [] value.resolution = "Eleven" -> ELEVEN
      [] value.resolution = "Twelve" -> TWELVE

\* impl From<ConfigurationRegister> for u8
IntoU8(value) ==
    CASE value.resolution = "Nine" -> NINE
      [] value.resolution = "Ten" -> TEN
      [] value.resolution = "Eleven" -> ELEVEN
      [] value.resolution = "Twelve" -> TWELVE

\* i16::from_be_bytes([b0, b1])
I16FromBeBytes(bytes) ==
    LET u == bytes[1] * 256 + bytes[2]
    IN  IF u >= 32768 THEN u - 65536 ELSE u

\* An f32 is kept as the exact fraction num / den: an i16 converts to f32
\* exactly (24-bit significand) and dividing by 16.0 only lowers the exponent.
I16AsF32(i) == [num |-> i, den |-> 1]
F32Div(x, d) == [num |-> x.num, den |-> x.den * d]

\* a slip: the word is read as u16, the sign is lost
temperatureUnsigned(msb, lsb, resolution) ==
    F32Div(I16AsF32(msb * 256 + lsb), 16)

\* i16::from_be_bytes([msb, lsb]) as f32 / 16.0
temperature(msb, lsb, resolution) ==
    F32Div(I16AsF32(I16FromBeBytes(<<msb, lsb>>)), 16)

(***************************************************************************)
(* SpecCodec: the conversions of scratchpad.rs applied to drawn inputs.    *)
(***************************************************************************)
\* every byte for try_from; every resolution for u8::from; every pair of
\* bytes and every resolution for temperature
InitCodec ==
    /\ \/ \E b \in Byte : input = [fn |-> "try_from", value |-> b]
       \/ \E r \in Resolution :
             input = [fn |-> "into", value |-> ConfigurationRegister(r)]
       \/ \E m \in Byte, l \in Byte, r \in Resolution :
             input = [fn |-> "temperature", msb |-> m, lsb |-> l, resolution |-> r]
    /\ output = None
    /\ phase = "Idle" /\ trace = <<>> /\ mark = 0 /\ ret = None /\ reserved = 0 /\ iter = <<>>

ApplyTryFrom ==
    /\ input.fn = "try_from"
    /\ output' = [op |-> "try_from", val |-> TryFrom(input.value)]
    /\ UNCHANGED <<input, driverVars>>

ApplyTemperature ==
    /\ input.fn = "temperature"
    /\ output' = [op |-> "temperature",
                  val |-> temperature(input.msb, input.lsb, input.resolution)]
    /\ UNCHANGED <<input, driverVars>>

\* u8::from(configuration_register)
ApplyInto ==
    /\ input.fn = "into"
    /\ output' = [op |-> "into", val |-> IntoU8(input.value)]
    /\ UNCHANGED <<input, driverVars>>

\* ConfigurationRegister::try_from(u8::from(configuration_register))
ApplyTryFromAfterInto ==
    /\ output # None /\ output.op = "into"
    /\ output' = [op |-> "into_try_from", byte |-> output.val,
                  val |-> TryFrom(output.val)]
    /\ UNCHANGED <<input, driverVars>>

\* u8::from(ConfigurationRegister::try_from(value)?)
ApplyIntoAfterTryFrom ==
    /\ output # None /\ output.op = "try_from" /\ IsOk(output.val)
    /\ output' = [op |-> "try_from_into", val |-> IntoU8(output.val.val)]
    /\ UNCHANGED <<input, driverVars>>

NextCodec ==
    \/ ApplyTryFrom
    \/ ApplyTemperature
    \/ ApplyInto
    \/ ApplyTryFromAfterInto
    \/ ApplyIntoAfterTryFrom

SpecCodec == InitCodec /\ [][NextCodec]_vars

(***************************************************************************)
(* Claims about scratchpad.rs, checked under SpecCodec.                    *)
(***************************************************************************)
\* C7: try_from(b) is Ok iff b is 0b0001_1111, 0b0011_1111, 0b0101_1111 or
\* 0b0111_1111; for every other b it is Error::ConfigurationRegister
\* carrying b.
C7_TryFromAcceptsFour ==
    (output # None /\ output.op = "try_from") =>
        LET b == input.value
        IN  /\ IsOk(output.val) <=> b \in {31, 63, 95, 127}
            /\ b \notin {31, 63, 95, 127} =>
                   /\ IsErr(output.val)
                   /\ output.val.val.err = "ConfigurationRegister"
                   /\ output.val.val.configuration_register = b

\* 0b1_00_11111, rejected in scratchpad.rs's test
C7_Witness ==
    /\ output # None /\ output.op = "try_from"
    /\ input.value = 159
    /\ output.val = Err(ConfigurationRegisterError(159))

\* C9: temperature(msb, lsb, r) * 16 is the two's-complement signed 16-bit
\* value of msb * 256 + lsb, whatever r is; (0x07,0xD0) gives 125.0,
\* (0x00,0x08) gives 0.5, (0xFF,0xF8) gives -0.5, (0xFC,0x90) gives -55.0.
C9_TemperatureSixteenths ==
    (output # None /\ output.op = "temperature") =>
        LET t == output.val
            u == input.msb * 256 + input.lsb
            signed == IF input.msb >= 128 THEN u - 65536 ELSE u
        IN  /\ t.den > 0
            /\ t.num * 16 = signed * t.den
            /\ (input.msb = 7 /\ input.lsb = 208) => t.num = 125 * t.den
            /\ (input.msb = 0 /\ input.lsb = 8) => 2 * t.num = t.den
            /\ (input.msb = 255 /\ input.lsb = 248) => 2 * t.num = -t.den
            /\ (input.msb = 252 /\ input.lsb = 144) => t.num = -55 * t.den

C9_Witness ==
    /\ output # None /\ output.op = "temperature"
    /\ input.msb = 252 /\ input.lsb = 144 /\ input.resolution = "Nine"
    /\ output.val.num = -55 * output.val.den

(***************************************************************************)
(* onewire.rs: the address and the command codes.  A u64 is kept as its 8  *)
(* bytes, most significant first (the order of the hexadecimal digits).    *)
(***************************************************************************)
RECURSIVE Reverse(_)
Reverse(q) == IF q = <<>> THEN <<>> ELSE Append(Reverse(Tail(q)), Head(q))

\* u64::to_le_bytes / u64::from_le_bytes
ToLeBytes(u) == Reverse(u)
U64FromLeBytes(bytes) == Reverse(bytes)

\* a & b on n-bit operands
RECURSIVE AndBits(_, _, _)
AndBits(a, b, n) ==
    IF n = 0 THEN 0
    ELSE ((a % 2) * (b % 2)) + 2 * AndBits(a \div 2, b \div 2, n - 1)

And8(a, b) == AndBits(a, b, U8_BITS)

\* a & b on u64
And64(a, b) == [i \in 1..8 |-> And8(a[i], b[i])]

\* an integer literal below 256 taken as u64
U64(literal) == <<0, 0, 0, 0, 0, 0, 0, literal>>

\* a << n on u64, for n a whole number of bytes (56 in the source): the
\* bytes shifted out at the top are lost
Shl64(a, n) ==
    LET k == n \div U8_BITS
    IN  [i \in 1..8 |-> IF i + k <= 8 THEN a[i + k] ELSE 0]

\* a as u8 on u64: the low 8 bits are kept
U64AsU8(a) == a[8]

OWAddress(u) == [address |-> u]

\* OWAddress::address
AddressOf(a) == a.address

\* OWAddress::family_code: (self.0 & 0xff) as u8
FamilyCodeOf(a) == U64AsU8(And64(a.address, U64(255)))

\* OWAddress::crc: (self.0 & 0xff << 56) as u8; << binds tighter than &,
\* and the cast is applied to the masked value, which is not shifted down
CrcOf(a) == U64AsU8(And64(a.address, Shl64(U64(255), 56)))

(***************************************************************************)
(* SpecAddress: family_code and crc applied to drawn addresses.            *)
(***************************************************************************)
\* the family codes drawn: DS18B20, DS18S20, and the ends of u8
SampleFamilies == {40, 16, 0, 255}

\* the serial numbers drawn: that of onewire.rs's test and that of
\* 0x230000046eafbc28
SampleSerials == { <<0, 0, 0, 0, 0, 0>>, <<0, 0, 4, 110, 175, 188>> }

\* every CRC byte, with the family codes and serial numbers above
InitAddress ==
    /\ \E top \in Byte, serial \in SampleSerials, low \in SampleFamilies :
          input = [fn |-> "address",
                   value |-> OWAddress(<<top>> \o serial \o <<low>>)]
    /\ output = None
    /\ phase = "Idle" /\ trace = <<>> /\ mark = 0 /\ ret = None /\ reserved = 0 /\ iter = <<>>

ApplyFamilyCode ==
    /\ output' = [op |-> "family_code", val |-> FamilyCodeOf(input.value)]
    /\ UNCHANGED <<input, driverVars>>

ApplyCrc ==
    /\ output' = [op |-> "crc", val |-> CrcOf(input.value)]
    /\ UNCHANGED <<input, driverVars>>

NextAddress == ApplyFamilyCode \/ ApplyCrc

SpecAddress == InitAddress /\ [][NextAddress]_vars

\* C22: for every address family_code() returns byte 0 (the low 8 bits)
\* and crc() returns byte 7 (the top 8 bits, the CRC byte), e.g. 0x28 and
\* 0x1E for 0x1E_000000000000_28.  The code does not do this for crc().
C22_AddressBytes ==
    /\ (output # None /\ output.op = "family_code") =>
          output.val = input.value.address[8]
    /\ (output # None /\ output.op = "crc") =>
          output.val = input.value.address[1]

\* what holds of the code: family_code() is byte 0
C22_FamilyCodeIsLowByte ==
    (output # None /\ output.op = "family_code") =>
        output.val = input.value.address[8]

\* what holds of the code: crc() is 0 for every address
C22_CrcIsAlwaysZero ==
    (output # None /\ output.op = "crc") => output.val = 0

\* crc() was applied to the address of onewire.rs's test
C22_Witness ==
    /\ output # None /\ output.op = "crc"
    /\ input.value = OWAddress(<<30, 0, 0, 0, 0, 0, 0, 40>>)
    /\ output.val = 0

\* OWCommand
MatchRom == 85
SkipRom == 204
ReadRom == 51

(***************************************************************************)
(* lib.rs: constants and Command.                                          *)
(***************************************************************************)
FAMILY_CODE == 40
CONVERSION_TIME_NS == 750000000

WriteScratchpad == 78
ReadScratchpad == 190
ConvertTemperature == 68

Scratchpad(t, high, low, cr, crc) ==
    [temperature |-> t,
     alarm_high_trigger_register |-> high,
     alarm_low_trigger_register |-> low,
     configuration_register |-> cr,
     crc |-> crc]

\* the phase objects: struct Rom<T>(T), struct Ram<T>(T)
Rom == [obj |-> "Rom"]
Ram == [obj |-> "Ram"]

(***************************************************************************)
(* The transport (OWDriver).  An operation runs against io: the trace so   *)
(* far, the number n of transport calls this operation has issued, the set *)
(* fails of the calls (by number) that will fail, and the bytes wire that  *)
(* the bus delivers to a read.                                             *)
(***************************************************************************)
Event(op, bytes, ok, ns) == [op |-> op, bytes |-> bytes, ok |-> ok, ns |-> ns]

Io(tr, fails, wire) == [trace |-> tr, n |-> 0, fails |-> fails, wire |-> wire]

Failing(io) == (io.n + 1) \in io.fails

Issue(io, op, bytes) ==
    [io EXCEPT !.n = @ + 1,
               !.trace = Append(@, Event(op, bytes, ~Failing(io), 0))]

Zeros(len) == [i \in 1..len |-> 0]

\* OWDriver::reset
DriverReset(io) ==
    [io |-> Issue(io, "reset", <<>>),
     res |-> IF Failing(io) THEN Err(EspError) ELSE Ok(Unit)]

\* OWDriver::write
DriverWrite(io, bytes) ==
    [io |-> Issue(io, "write", bytes),
     res |-> IF Failing(io) THEN Err(EspError) ELSE Ok(Unit)]

\* OWDriver::read: on success the buffer holds the first len bytes of the
\* wire; on failure it is left as it was created, [0u8; len]
DriverRead(io, len) ==
    LET buffer == IF Failing(io) THEN Zeros(len) ELSE SubSeq(io.wire, 1, len)
    IN  [io |-> Issue(io, "read", buffer),
         res |-> IF Failing(io) THEN Err(EspError) ELSE Ok(buffer)]

\* thread::sleep: not a transport call, it cannot fail
Sleep(io, ns) ==
    [io EXCEPT !.trace = Append(@, Event("sleep", <<>>, TRUE, ns))]

\* what an operation hands back: the transport as it left it, and its result
Return(io, res) == [io |-> io, res |-> res]

(***************************************************************************)
(* lib.rs: Ds18b20Driver, Rom, Ram.                                        *)
(***************************************************************************)
\* a slip: the result of reset() is dropped, the Rom is handed out anyway
initializationIgnoresReset(io) ==
    LET r == DriverReset(io)
    IN  Return(r.io, Ok(Rom))

\* Ds18b20Driver::initialization
initialization(io) ==
    LET r == DriverReset(io)
    IN  IF IsErr(r.res) THEN Return(r.io, r.res)
        ELSE Return(r.io, Ok(Rom))

\* a slip: the address is taken from the buffer without crc8::check
read_romUnchecked(io) ==
    LET w == DriverWrite(io, <<ReadRom>>)
    IN  IF IsErr(w.res) THEN Return(w.io, w.res)
        ELSE LET r == DriverRead(w.io, 8)
             IN  IF IsErr(r.res) THEN Return(r.io, r.res)
                 ELSE Return(r.io, Ok(OWAddress(U64FromLeBytes(r.res.val))))

\* Rom::read_rom
read_rom(io) ==
    LET w == DriverWrite(io, <<ReadRom>>)
    IN  IF IsErr(w.res) THEN Return(w.io, w.res)
        ELSE LET r == DriverRead(w.io, 8)
             IN  IF IsErr(r.res) THEN Return(r.io, r.res)
                 ELSE LET c == check(r.res.val)
                      IN  IF IsErr(c) THEN Return(r.io, c)
                          ELSE Return(r.io, Ok(OWAddress(U64FromLeBytes(r.res.val))))

\* a slip: address.to_be_bytes(), the CRC byte goes first
match_romBigEndian(io, address) ==
    LET buffer == <<MatchRom>> \o AddressOf(address)
        w == DriverWrite(io, buffer)
    IN  IF IsErr(w.res) THEN Return(w.io, w.res)
        ELSE Return(w.io, Ok(Ram))

\* Rom::match_rom
match_rom(io, address) ==
    LET buffer == <<MatchRom>> \o ToLeBytes(AddressOf(address))
        w == DriverWrite(io, buffer)
    IN  IF IsErr(w.res) THEN Return(w.io, w.res)
        ELSE Return(w.io, Ok(Ram))

\* a slip: a failed write of the command is tried once more
skip_romRetries(io) ==
    LET w == DriverWrite(io, <<SkipRom>>)
    IN  IF IsOk(w.res) THEN Return(w.io, Ok(Ram))
        ELSE LET again == DriverWrite(w.io, <<SkipRom>>)
             IN  IF IsErr(again.res) THEN Return(again.io, again.res)
                 ELSE Return(again.io, Ok(Ram))

\* Rom::skip_rom
skip_rom(io) ==
    LET w == DriverWrite(io, <<SkipRom>>)
    IN  IF IsErr(w.res) THEN Return(w.io, w.res)
        ELSE Return(w.io, Ok(Ram))

\* a slip: buffer[0] is passed as msb and buffer[1] as lsb
DecodeBigEndian(buffer, configuration_register) ==
    Scratchpad(temperature(buffer[1], buffer[2], configuration_register.resolution),
               AsI8(buffer[3]),
               AsI8(buffer[4]),
               configuration_register,
               buffer[9])

\* the Scratchpad read_scratchpad builds from the checked buffer
\* (buffer[k] of the source is buffer[k + 1] here)
Decode(buffer, configuration_register) ==
    Scratchpad(temperature(buffer[2], buffer[1], configuration_register.resolution),
               AsI8(buffer[3]),
               AsI8(buffer[4]),
               configuration_register,
               buffer[9])

\* a slip: the buffer is decoded without crc8::check
read_scratchpadUnchecked(io) ==
    LET w == DriverWrite(io, <<ReadScratchpad>>)
    IN  IF IsErr(w.res) THEN Return(w.io, w.res)
        ELSE LET r == DriverRead(w.io, 9)
             IN  IF IsErr(r.res) THEN Return(r.io, r.res)
                 ELSE LET buffer == r.res.val
                          cr == TryFrom(buffer[5])
                      IN  IF IsErr(cr) THEN Return(r.io, cr)
                          ELSE Return(r.io, Ok(Decode(buffer, cr.val)))

\* a slip: the configuration register is decoded before crc8::check
read_scratchpadConfigurationFirst(io) ==
    LET w == DriverWrite(io, <<ReadScratchpad>>)
    IN  IF IsErr(w.res) THEN Return(w.io, w.res)
        ELSE LET r == DriverRead(w.io, 9)
             IN  IF IsErr(r.res) THEN Return(r.io, r.res)
                 ELSE LET buffer == r.res.val
                          cr == TryFrom(buffer[5])
                      IN  IF IsErr(cr) THEN Return(r.io, cr)
                          ELSE LET c == check(buffer)
                               IN  IF IsErr(c) THEN Return(r.io, c)
                                   ELSE Return(r.io, Ok(Decode(buffer, cr.val)))

\* Ram::read_scratchpad
read_scratchpad(io) ==
    LET w == DriverWrite(io, <<ReadScratchpad>>)
    IN  IF IsErr(w.res) THEN Return(w.io, w.res)
        ELSE LET r == DriverRead(w.io, 9)
             IN  IF IsErr(r.res) THEN Return(r.io, r.res)
                 ELSE LET buffer == r.res.val
                          c == check(buffer)
                      IN  IF IsErr(c) THEN Return(r.io, c)
                          ELSE LET cr == TryFrom(buffer[5])
                               IN  IF IsErr(cr) THEN Return(r.io, cr)
                                   ELSE Return(r.io, Ok(Decode(buffer, cr.val)))

\* the 3 bytes write_scratchpad sends after the command code
Encode(scratchpad) ==
    <<AsU8(scratchpad.alarm_high_trigger_register),
      AsU8(scratchpad.alarm_low_trigger_register),
      IntoU8(scratchpad.configuration_register)>>

\* a slip: the result of the command write is dropped, the data follow
write_scratchpadIgnoresCommand(io, scratchpad) ==
    LET w == DriverWrite(io, <<WriteScratchpad>>)
        d == DriverWrite(w.io, Encode(scratchpad))
    IN  Return(d.io, d.res)

\* Ram::write_scratchpad
write_scratchpad(io, scratchpad) ==
    LET w == DriverWrite(io, <<WriteScratchpad>>)
    IN  IF IsErr(w.res) THEN Return(w.io, w.res)
        ELSE LET d == DriverWrite(w.io, Encode(scratchpad))
             IN  Return(d.io, d.res)

\* Resolution::conversion_time (ns); the values fit u32, the cast loses
\* nothing
conversion_time(resolution) ==
    CASE resolution = "Nine" -> CONVERSION_TIME_NS \div 8
      [] resolution = "Ten" -> CONVERSION_TIME_NS \div 4
      [] resolution = "Eleven" -> CONVERSION_TIME_NS \div 2
      [] resolution = "Twelve" -> CONVERSION_TIME_NS

\* a slip: the wait is made before the result of the write is looked at
convert_temperatureWaitsAnyway(io) ==
    LET w == DriverWrite(io, <<ConvertTemperature>>)
        slept == Sleep(w.io, CONVERSION_TIME_NS)
    IN  IF IsErr(w.res) THEN Return(slept, w.res)
        ELSE Return(slept, Ok(Unit))

\* Ram::convert_temperature
convert_temperature(io) ==
    LET w == DriverWrite(io, <<ConvertTemperature>>)
    IN  IF IsErr(w.res) THEN Return(w.io, w.res)
        ELSE Return(Sleep(w.io, CONVERSION_TIME_NS), Ok(Unit))

\* Rom::search_alarm: todo!()
search_alarm(io) == Return(io, Panic)

\* Ram::load_scratchpad: todo!()
load_scratchpad(io) == Return(io, Panic)

\* Ram::save_scratchpad: todo!()
save_scratchpad(io) == Return(io, Panic)

\* Ram::read_power_supply: todo!()
read_power_supply(io) == Return(io, Panic)

\* initialization()?.match_rom(address)?.convert_temperature()?
ConvertSequence(io, address) ==
    LET i == initialization(io)
    IN  IF IsErr(i.res) THEN i
        ELSE LET m == match_rom(i.io, address)
             IN  IF IsErr(m.res) THEN m
                 ELSE convert_temperature(m.io)

\* initialization()?.match_rom(address)?.read_scratchpad()?
ReadSequence(io, address) ==
    LET i == initialization(io)
    IN  IF IsErr(i.res) THEN i
        ELSE LET m == match_rom(i.io, address)
             IN  IF IsErr(m.res) THEN m
                 ELSE read_scratchpad(m.io)

\* a slip: the error of the convert sequence is dropped and the read
\* sequence runs anyway
driver_temperatureIgnoresConvert(io, address) ==
    LET c == ConvertSequence(io, address)
        s == ReadSequence(c.io, address)
    IN  IF IsErr(s.res) THEN s
        ELSE Return(s.io, Ok(s.res.val.temperature))

\* Ds18b20Driver::temperature
driver_temperature(io, address) ==
    LET c == ConvertSequence(io, address)
    IN  IF IsErr(c.res) THEN c
        ELSE LET s == ReadSequence(c.io, address)
             IN  IF IsErr(s.res) THEN s
                 ELSE Return(s.io, Ok(s.res.val.temperature))

\* OWDriver::search: the enumeration starts, or fails to
DriverSearch(io) ==
    [io |-> Issue(io, "search", <<>>),
     res |-> IF Failing(io) THEN Err(EspError) ELSE Ok(Unit)]

\* DeviceSearch::next: the transport yields its next item, if it has one
DriverSearchNext(io, pending) ==
    IF pending = <<>> THEN [io |-> io, item |-> <<>>, pending |-> <<>>]
    ELSE LET item == Head(pending)
             bytes == IF IsOk(item) THEN ToLeBytes(AddressOf(item.val)) ELSE <<>>
         IN  [io |-> [io EXCEPT !.trace =
                        Append(@, Event("search_next", bytes, IsOk(item), 0))],
              item |-> <<item>>,
              pending |-> Tail(pending)]

\* the closure search maps over the transport's items
FamilyCheck(item) ==
    IF IsErr(item) THEN item
    ELSE LET address == item.val
             family_code == FamilyCodeOf(address)
         IN  IF family_code # FAMILY_CODE THEN Err(FamilyCodeError(family_code))
             ELSE Ok(address)

\* Ds18b20Driver::search: Ok(self.driver.search()?.map(..))
search(io) ==
    LET r == DriverSearch(io)
    IN  IF IsErr(r.res) THEN Return(r.io, r.res)
        ELSE Return(r.io, Ok([obj |-> "Search"]))

\* a slip: filter_map in place of map, devices of another family are skipped
RECURSIVE search_nextSkipsForeign(_, _)
search_nextSkipsForeign(io, pending) ==
    LET t == DriverSearchNext(io, pending)
    IN  IF t.item = <<>>
        THEN [io |-> t.io, iter |-> t.pending, pulled |-> <<>>, yielded |-> <<>>]
        ELSE LET y == FamilyCheck(t.item[1])
             IN  IF IsErr(y) /\ y.val.err = "FamilyCode"
                 THEN LET rest == search_nextSkipsForeign(t.io, t.pending)
                      IN  [rest EXCEPT !.pulled = t.item \o @]
                 ELSE [io |-> t.io, iter |-> t.pending,
                       pulled |-> t.item, yielded |-> <<y>>]

\* Iterator::next of the Map search returns: one item of the transport is
\* pulled and mapped, or the iterator is at its end
search_next(io, pending) ==
    LET t == DriverSearchNext(io, pending)
    IN  [io |-> t.io,
         iter |-> t.pending,
         pulled |-> t.item,
         yielded |-> IF t.item = <<>> THEN <<>> ELSE <<FamilyCheck(t.item[1])>>]

\* C15: the configuration byte and the Resolution are in bijection:
\* try_from(u8::from(cr)) is Ok(cr) for each of the four resolutions,
\* u8::from(try_from(b)) is b for each byte try_from accepts, and distinct
\* resolutions have distinct bytes (Nine 31, Ten 63, Eleven 95, Twelve 127).
C15_ConfigurationBijection ==
    /\ (output # None /\ output.op = "into") =>
          output.val = CASE input.value.resolution = "Nine" -> 31
                         [] input.value.resolution = "Ten" -> 63
                         [] input.value.resolution = "Eleven" -> 95
                         [] input.value.resolution = "Twelve" -> 127
    /\ (output # None /\ output.op = "into_try_from") =>
          output.val = Ok(input.value)
    /\ (output # None /\ output.op = "try_from_into") =>
          /\ output.val = input.value
          /\ input.value \in {31, 63, 95, 127}

\* Ten became 0b0011_1111 and 0b0011_1111 became Ten again
C15_Witness ==
    /\ output # None /\ output.op = "into_try_from"
    /\ input.value = ConfigurationRegister("Ten")
    /\ output.byte = 63
    /\ output.val = Ok(ConfigurationRegister("Ten"))

(***************************************************************************)
(* SpecRoundTrip: a scratchpad is written, the device keeps the 3 bytes it *)
(* was sent as bytes 2, 3, 4 of its memory, and the scratchpad is read     *)
(* back.                                                                   *)
(***************************************************************************)
\* the temperature bytes the device holds when it is read (22.1875, -0.5)
DeviceTemperatures == { <<99, 1>>, <<248, 255>> }

\* the 9 bytes the device answers a read with: temperature, the 3 bytes it
\* was sent, its reserved bytes and the CRC of the 8 bytes before
DeviceMemory(t, sent) ==
    LET data == t \o sent \o <<255, 13, 16>>
    IN  Append(data, calculate(data))

\* the alarm-lows drawn with an alarm-high: its complement, so that every
\* alarm-low is drawn too, and the ends and the middle of i8
AlarmLows(high) == { -1 - high, -128, 0, 127 }

\* every alarm-high, every alarm-low and every resolution
InitRoundTrip ==
    /\ \E high \in -128..127, r \in Resolution : \E low \in AlarmLows(high) :
          input = [fn |-> "round_trip",
                   scratchpad |-> Scratchpad(I16AsF32(0), high, low,
                                             ConfigurationRegister(r), 0)]
    /\ output = None
    /\ phase = "Idle" /\ trace = <<>> /\ mark = 0 /\ ret = None /\ reserved = 0 /\ iter = <<>>

WriteScratchpadApply ==
    /\ output = None
    /\ LET r == write_scratchpad(Io(<<>>, {}, <<>>), input.scratchpad)
       IN  output' = [op |-> "write_scratchpad",
                      sent |-> r.io.trace[Len(r.io.trace)].bytes,
                      res |-> r.res]
    /\ UNCHANGED <<input, driverVars>>

ReadScratchpadApply ==
    /\ output # None /\ output.op = "write_scratchpad"
    /\ \E t \in DeviceTemperatures :
         LET buffer == DeviceMemory(t, output.sent)
             r == read_scratchpad(Io(<<>>, {}, buffer))
         IN  output' = [op |-> "read_scratchpad",
                        sent |-> output.sent,
                        buffer |-> r.io.trace[Len(r.io.trace)].bytes,
                        res |-> r.res]
    /\ UNCHANGED <<input, driverVars>>

NextRoundTrip == WriteScratchpadApply \/ ReadScratchpadApply

SpecRoundTrip == InitRoundTrip /\ [][NextRoundTrip]_vars

\* C14: writing and reading back the writable fields is a fixed point: for
\* every alarm-high and alarm-low in -128..127 and every Resolution, when the
\* 9 bytes the device returns have bytes 2, 3, 4 equal to the three bytes
\* write_scratchpad sent for the scratchpad and a valid trailing CRC,
\* read_scratchpad returns the same alarm_high_trigger_register,
\* alarm_low_trigger_register and configuration_register.
C14_RoundTrip ==
    (output # None /\ output.op = "read_scratchpad"
       /\ Len(output.sent) = 3
       /\ SubSeq(output.buffer, 3, 5) = output.sent
       /\ calculate(output.buffer) = 0) =>
        /\ IsOk(output.res)
        /\ output.res.val.alarm_high_trigger_register =
              input.scratchpad.alarm_high_trigger_register
        /\ output.res.val.alarm_low_trigger_register =
              input.scratchpad.alarm_low_trigger_register
        /\ output.res.val.configuration_register =
              input.scratchpad.configuration_register

\* alarm-high -1 and alarm-low -128 went out as 0xFF, 0x80 and came back
C14_Witness ==
    /\ output # None /\ output.op = "read_scratchpad" /\ IsOk(output.res)
    /\ output.sent = <<255, 128, 31>>
    /\ SubSeq(output.buffer, 3, 5) = output.sent
    /\ output.res.val.alarm_high_trigger_register = -1
    /\ output.res.val.alarm_low_trigger_register = -128
    /\ output.res.val.configuration_register = ConfigurationRegister("Nine")

(***************************************************************************)
(* Spec: a caller of the facade.  The borrow of the driver held by a phase *)
(* object lets the caller use the driver itself only while it holds none   *)
(* (phase = "Idle"); a method that takes self consumes the object; the     *)
(* caller may let an object go out of scope (Release).  Each action draws  *)
(* which transport calls fail and what the bus delivers.                   *)
(***************************************************************************)
\* 0x230000046eafbc28 and 0x4500000088204e28 (main.rs)
Addresses ==
    { OWAddress(<<35, 0, 0, 4, 110, 175, 188, 40>>),
      OWAddress(<<69, 0, 0, 0, 136, 32, 78, 40>>) }

\* what a device may put on the bus for read_rom: a ROM code with its CRC,
\* the same with a damaged CRC byte, and a bus held low
RomWires ==
    { <<40, 188, 175, 110, 4, 0, 0, 35>>,
      <<40, 188, 175, 110, 4, 0, 0, 34>>,
      <<0, 0, 0, 0, 0, 0, 0, 0>> }

\* what a device may put on the bus for read_scratchpad: two scratchpads
\* with their CRC (22.1875 at 12 bits, -0.5 at 9 bits), one with a damaged
\* CRC byte, one with a damaged configuration byte and CRC, and a bus held
\* low (CRC 0, no valid configuration)
ScratchWires ==
    { <<99, 1, 75, 70, 127, 255, 13, 16, 21>>,
      <<248, 255, 30, 19, 31, 255, 8, 16, 234>>,
      <<99, 1, 75, 70, 127, 255, 13, 16, 22>>,
      <<99, 1, 75, 70, 0, 255, 13, 16, 21>>,
      <<0, 0, 0, 0, 0, 0, 0, 0, 0>> }

\* the scratchpad main.rs writes, the same with other read-only fields (as
\* read back at -0.5 degrees), and one whose TH byte is 0x44
Scratchpads ==
    { Scratchpad(I16AsF32(0), 30, 10, ConfigurationRegister("Twelve"), 0),
      Scratchpad(F32Div(I16AsF32(-8), 16), 30, 10, ConfigurationRegister("Twelve"), 234),
      Scratchpad(F32Div(I16AsF32(355), 16), 68, -1, ConfigurationRegister("Nine"), 21) }

\* what the transport's search may yield: a DS18B20 (0x230000046eafbc28), a
\* device of another family (0x10) and a bus error
SearchItems ==
    { Ok(OWAddress(<<35, 0, 0, 4, 110, 175, 188, 40>>)),
      Ok(OWAddress(<<55, 0, 8, 1, 154, 184, 91, 16>>)),
      Err(EspError) }

\* the faults of a transport over an operation of n calls: none, one call
\* failing (a transient fault), or every call failing from some call on
FailSets(n) ==
    {{}} \cup {{k} : k \in 1..n} \cup {k..n : k \in 1..n}

Init ==
    /\ phase = "Idle"
    /\ trace = <<>>
    /\ mark = 0
    /\ ret = None /\ reserved = 0 /\ iter = <<>>
    /\ input = None
    /\ output = None

\* the run is cut where the trace could outgrow the bound: an operation
\* reserves the n events it may record when it starts, and starts only if
\* they fit
Room(n) == reserved + n <= MaxReserved /\ reserved' = reserved + n

\* the caller's side of one operation op, called with arg, that ended as r
Returned(op, arg, r, next) ==
    /\ trace' = r.io.trace
    /\ mark' = Len(trace)
    /\ ret' = [op |-> op, arg |-> arg, res |-> r.res]
    /\ phase' = next
    /\ iter' = <<>>
    /\ UNCHANGED pureVars

\* the phase object an operation returning Result<Rom<..>> or Result<Ram<..>>
\* leaves in the caller's hands
Held(res) == IF IsOk(res) THEN res.val.obj ELSE "Idle"

\* a slip: initialization takes &self, the bus is reset while a phase
\* object is held, and the object stays in the caller's hands
InitializationShared ==
    /\ phase \in {"Idle", "Rom", "Ram"}
    /\ Room(1)
    /\ \E fails \in FailSets(1) :
         LET r == initialization(Io(trace, fails, <<>>))
         IN  Returned("initialization", None, r,
                      IF phase = "Idle" THEN Held(r.res) ELSE phase)

Initialization ==
    /\ phase = "Idle"
    /\ Room(1)
    /\ \E fails \in FailSets(1) :
         LET r == initialization(Io(trace, fails, <<>>))
         IN  Returned("initialization", None, r, Held(r.res))

ReadRomCall ==
    /\ phase = "Rom"
    /\ Room(2)
    /\ \E fails \in FailSets(2), wire \in RomWires :
         LET r == read_rom(Io(trace, fails, wire))
         IN  Returned("read_rom", None, r, "Idle")

MatchRomCall ==
    /\ phase = "Rom"
    /\ Room(1)
    /\ \E fails \in FailSets(1), address \in Addresses :
         LET r == match_rom(Io(trace, fails, <<>>), address)
         IN  Returned("match_rom", address, r, Held(r.res))

SkipRomCall ==
    /\ phase = "Rom"
    /\ Room(1)
    /\ \E fails \in FailSets(1) :
         LET r == skip_rom(Io(trace, fails, <<>>))
         IN  Returned("skip_rom", None, r, Held(r.res))

\* a slip: read_scratchpad takes &mut self, the Ram stays usable
ReadScratchpadBorrows ==
    /\ phase = "Ram"
    /\ Room(2)
    /\ \E fails \in FailSets(2), wire \in ScratchWires :
         LET r == read_scratchpad(Io(trace, fails, wire))
         IN  Returned("read_scratchpad", None, r, "Ram")

ReadScratchpadCall ==
    /\ phase = "Ram"
    /\ Room(2)
    /\ \E fails \in FailSets(2), wire \in ScratchWires :
         LET r == read_scratchpad(Io(trace, fails, wire))
         IN  Returned("read_scratchpad", None, r, "Idle")

WriteScratchpadCall ==
    /\ phase = "Ram"
    /\ Room(2)
    /\ \E fails \in FailSets(2), scratchpad \in Scratchpads :
         LET r == write_scratchpad(Io(trace, fails, <<>>), scratchpad)
         IN  Returned("write_scratchpad", scratchpad, r, "Idle")

ConvertTemperatureCall ==
    /\ phase = "Ram"
    /\ Room(2)
    /\ \E fails \in FailSets(1) :
         LET r == convert_temperature(Io(trace, fails, <<>>))
         IN  Returned("convert_temperature", None, r, "Idle")

\* the four reserved operations: the panic unwinds the caller, which takes
\* no further step; the panic takes the room of one event of the run
SearchAlarmCall ==
    /\ phase = "Rom"
    /\ Room(1)
    /\ LET r == search_alarm(Io(trace, {}, <<>>))
       IN  Returned("search_alarm", None, r, "Panicked")

LoadScratchpadCall ==
    /\ phase = "Ram"
    /\ Room(1)
    /\ LET r == load_scratchpad(Io(trace, {}, <<>>))
       IN  Returned("load_scratchpad", None, r, "Panicked")

SaveScratchpadCall ==
    /\ phase = "Ram"
    /\ Room(1)
    /\ LET r == save_scratchpad(Io(trace, {}, <<>>))
       IN  Returned("save_scratchpad", None, r, "Panicked")

ReadPowerSupplyCall ==
    /\ phase = "Ram"
    /\ Room(1)
    /\ LET r == read_power_supply(Io(trace, {}, <<>>))
       IN  Returned("read_power_supply", None, r, "Panicked")

TemperatureCall ==
    /\ phase = "Idle"
    /\ Room(8)
    /\ \E fails \in FailSets(7), wire \in ScratchWires, address \in Addresses :
         LET r == driver_temperature(Io(trace, fails, wire), address)
         IN  Returned("temperature", address, r, "Idle")

\* Ds18b20Driver::search, and the iterator it returned in the caller's
\* hands: room is taken for the call, for every next() that yields and for
\* the next() that ends the iteration
SearchCall ==
    /\ phase = "Idle"
    /\ Room(2 + MaxFound)
    /\ \E fails \in FailSets(1), found \in SeqsUpTo(SearchItems, MaxFound) :
         LET r == search(Io(trace, fails, <<>>))
         IN  /\ trace' = r.io.trace
             /\ mark' = Len(trace)
             /\ ret' = [op |-> "search", arg |-> None, res |-> r.res]
             /\ phase' = IF IsOk(r.res) THEN "Search" ELSE "Idle"
             /\ iter' = IF IsOk(r.res) THEN found ELSE <<>>
             /\ UNCHANGED pureVars

\* Iterator::next on the iterator search returned; ret keeps what the
\* transport yielded to it (arg) and what it yielded (res) since search
SearchNextCall ==
    /\ phase = "Search"
    /\ LET r == search_next(Io(trace, {}, <<>>), iter)
           before == IF ret.op = "search" THEN [arg |-> <<>>, res |-> <<>>] ELSE ret
       IN  /\ trace' = r.io.trace
           /\ ret' = [op |-> "search_next",
                      arg |-> before.arg \o r.pulled,
                      res |-> before.res \o r.yielded]
           /\ iter' = r.iter
    /\ UNCHANGED <<phase, mark, reserved, pureVars>>

\* the phase object, or the search iterator, goes out of scope
Release ==
    /\ phase \in {"Rom", "Ram", "Search"}
    /\ phase' = "Idle"
    /\ iter' = <<>>
    /\ UNCHANGED <<trace, mark, ret, reserved, pureVars>>

Next ==
    \/ Initialization
    \/ ReadRomCall
    \/ MatchRomCall
    \/ SkipRomCall
    \/ ReadScratchpadCall
    \/ WriteScratchpadCall
    \/ ConvertTemperatureCall
    \/ TemperatureCall
    \/ SearchCall
    \/ SearchNextCall
    \/ SearchAlarmCall
    \/ LoadScratchpadCall
    \/ SaveScratchpadCall
    \/ ReadPowerSupplyCall
    \/ Release

Spec == Init /\ [][Next]_vars

(***************************************************************************)
(* Claims about the command protocol, checked under Spec.                  *)
(***************************************************************************)
\* the transport calls the last operation issued
LastEvents == SubSeq(trace, mark + 1, Len(trace))

\* a write of one of the memory command codes 0x4E, 0xBE, 0x44: the code is
\* written alone (the 3 data bytes of write_scratchpad are another write)
IsMemoryCommand(e) ==
    e.op = "write" /\ Len(e.bytes) = 1 /\ e.bytes[1] \in {78, 190, 68}

\* a write of match (0x55 and 8 address bytes) or skip (0xCC)
IsSelection(e) ==
    /\ e.op = "write"
    /\ \/ Len(e.bytes) = 9 /\ e.bytes[1] = 85
       \/ Len(e.bytes) = 1 /\ e.bytes[1] = 204

\* a write of read_rom's code 0x33
IsReadRom(e) ==
    e.op = "write" /\ Len(e.bytes) = 1 /\ e.bytes[1] = 51

IsCommand(e) == IsMemoryCommand(e) \/ IsSelection(e) \/ IsReadRom(e)

\* the place of the most recent reset() before place i, 0 if there is none
RECURSIVE LastResetBefore(_)
LastResetBefore(i) ==
    IF i <= 1 THEN 0
    ELSE IF trace[i - 1].op = "reset" THEN i - 1
    ELSE LastResetBefore(i - 1)

\* C1: every write of a memory command code (0x4E, 0xBE, 0x44) is preceded,
\* since the most recent reset(), by that reset succeeding and then one
\* successful write of a selection command (0x55 + address, or 0xCC), with
\* nothing else in between.
C1_MemoryAfterSelection ==
    \A i \in 1..Len(trace) :
        IsMemoryCommand(trace[i]) =>
            LET j == LastResetBefore(i)
            IN  /\ j > 0
                /\ trace[j].ok
                /\ i = j + 2
                /\ IsSelection(trace[j + 1])
                /\ trace[j + 1].ok

C1_Witness ==
    /\ ret # None /\ ret.op = "write_scratchpad"
    /\ Len(trace) >= 4
    /\ trace[Len(trace) - 1].bytes = <<78>>
    /\ trace[Len(trace) - 2].bytes = <<204>>
    /\ trace[Len(trace)].bytes = <<68, 255, 31>>

\* C2: between one reset() and the next, at most one selection command
\* (read_rom, match_rom, skip_rom) and at most one memory command are
\* written, the selection first; after read_rom or a memory command no
\* command code follows until the next reset(); no command code is written
\* before the first reset(); an operation that consumes its phase object
\* leaves the caller holding none.
C2_PhaseUsedOnce ==
    /\ \A i \in 1..Len(trace) : \A k \in 1..Len(trace) :
          (/\ i < k
           /\ IsCommand(trace[i])
           /\ IsCommand(trace[k])
           /\ LastResetBefore(i) = LastResetBefore(k))
          => (IsSelection(trace[i]) /\ IsMemoryCommand(trace[k]))
    /\ \A i \in 1..Len(trace) : IsCommand(trace[i]) => LastResetBefore(i) > 0
    /\ (ret # None /\ ret.op \in {"read_rom", "read_scratchpad", "write_scratchpad",
                                   "convert_temperature", "temperature"})
          => phase = "Idle"
    /\ (ret # None /\ ret.op \in {"match_rom", "skip_rom"}) => phase # "Rom"

\* a whole sequence, then a selection that fails and leaves nothing to use
C2_Witness ==
    /\ Len(trace) = 6
    /\ trace[1].op = "reset" /\ IsSelection(trace[2]) /\ trace[3].bytes = <<68>>
    /\ trace[4].op = "sleep"
    /\ trace[5].op = "reset" /\ trace[5].ok
    /\ IsSelection(trace[6]) /\ ~trace[6].ok
    /\ phase = "Idle"

\* C3: read_scratchpad returns Ok only when the CRC8 of the 9 bytes read is
\* zero; when it is not zero it returns the CRC error carrying that CRC;
\* temperature returns Ok only after such a read with CRC8 zero.
C3_CrcGuardsScratchpad ==
    /\ (/\ ret # None /\ ret.op = "read_scratchpad"
        /\ Len(LastEvents) = 2
        /\ LastEvents[2].op = "read" /\ LastEvents[2].ok)
       => LET crc == calculate(LastEvents[2].bytes)
          IN  /\ Len(LastEvents[2].bytes) = 9
              /\ IsOk(ret.res) => crc = 0
              /\ crc # 0 => ret.res = Err(CrcError(crc))
    /\ (ret # None /\ ret.op = "read_scratchpad" /\ IsOk(ret.res))
       => /\ Len(LastEvents) = 2
          /\ LastEvents[2].op = "read" /\ LastEvents[2].ok
    /\ (ret # None /\ ret.op = "temperature" /\ IsOk(ret.res))
       => LET last == trace[Len(trace)]
          IN  /\ last.op = "read" /\ last.ok
              /\ Len(last.bytes) = 9
              /\ calculate(last.bytes) = 0

C3_Witness ==
    /\ ret # None /\ ret.op = "read_scratchpad"
    /\ trace[Len(trace)].bytes = <<99, 1, 75, 70, 127, 255, 13, 16, 22>>
    /\ IsErr(ret.res) /\ ret.res.val.err = "Crc" /\ ret.res.val.crc # 0

\* the signed 16-bit value whose most significant byte is hi
Signed16(hi, lo) ==
    IF hi >= 128 THEN hi * 256 + lo - 65536 ELSE hi * 256 + lo

\* the f32 t is sixteenths / 16
IsSixteenths(t, sixteenths) == t.den > 0 /\ t.num * 16 = sixteenths * t.den

\* the 9 bytes a successful read_scratchpad read
ScratchpadRead ==
    /\ ret # None /\ ret.op = "read_scratchpad" /\ IsOk(ret.res)

\* C8 as claimed: the temperature of the Scratchpad read_scratchpad returns
\* is bytes 0-1 of the buffer as a big-endian signed 16-bit integer (byte 0
\* the most significant), divided by 16.
C8_Original_BigEndian ==
    ScratchpadRead =>
        LET buffer == trace[Len(trace)].bytes
        IN  IsSixteenths(ret.res.val.temperature, Signed16(buffer[1], buffer[2]))

\* C8 as amended: the temperature of the Scratchpad read_scratchpad returns
\* is bytes 0-1 of the buffer as a little-endian signed 16-bit integer (byte
\* 1 the most significant, byte 0 the least significant), divided by 16.
C8_LittleEndianTemperature ==
    ScratchpadRead =>
        LET buffer == trace[Len(trace)].bytes
        IN  IsSixteenths(ret.res.val.temperature, Signed16(buffer[2], buffer[1]))

\* the buffer 99, 1, ... decodes to 0x0163 / 16 = 22.1875, not 0x6301 / 16
C8_Witness ==
    /\ ScratchpadRead
    /\ trace[Len(trace)].bytes = <<99, 1, 75, 70, 127, 255, 13, 16, 21>>
    /\ IsSixteenths(ret.res.val.temperature, 355)

\* the 8 address bytes, least significant first
LittleEndian(u) == <<u[8], u[7], u[6], u[5], u[4], u[3], u[2], u[1]>>

\* C10: a successful temperature(address) issues exactly reset,
\* write(0x55 + address), write(0x44), wait, reset, write(0x55 + address),
\* write(0xBE), read(9 bytes), and returns the temperature decoded from the
\* buffer read; the read sequence (the second reset) is never started unless
\* the convert sequence completed without error.
C10_TemperatureSequence ==
    (ret # None /\ ret.op = "temperature") =>
        LET e == LastEvents
            select == <<85>> \o LittleEndian(ret.arg.address)
        IN  /\ IsOk(ret.res) =>
                /\ Len(e) = 8
                /\ \A i \in 1..8 : e[i].ok
                /\ [i \in 1..8 |-> e[i].op] =
                      <<"reset", "write", "write", "sleep",
                        "reset", "write", "write", "read">>
                /\ e[2].bytes = select
                /\ e[3].bytes = <<68>>
                /\ e[6].bytes = select
                /\ e[7].bytes = <<190>>
                /\ Len(e[8].bytes) = 9
                /\ IsSixteenths(ret.res.val, Signed16(e[8].bytes[2], e[8].bytes[1]))
            /\ Len(e) >= 5 =>
                /\ \A i \in 1..4 : e[i].ok
                /\ e[1].op = "reset"
                /\ e[2].bytes = select
                /\ e[3].bytes = <<68>>
                /\ e[4].op = "sleep"
                /\ e[5].op = "reset"
            /\ Len(e) <= 8

C10_Witness ==
    /\ ret # None /\ ret.op = "temperature" /\ IsOk(ret.res)
    /\ Len(LastEvents) = 8
    /\ ret.arg = OWAddress(<<69, 0, 0, 0, 136, 32, 78, 40>>)
    /\ trace[Len(trace)].bytes = <<248, 255, 30, 19, 31, 255, 8, 16, 234>>
    /\ IsSixteenths(ret.res.val, -8)

(***************************************************************************)
(* The search of the bus                                                   *)
(***************************************************************************)

\* what the transport yielded to the iterator since search was called
TransportItems == SelectSeq(LastEvents, LAMBDA e : e.op = "search_next")

\* what the claim lets the facade yield for one item of the transport
ExpectedItem(e) ==
    IF ~e.ok THEN Err(EspError)
    ELSE IF e.bytes[1] = 40 THEN Ok(OWAddress(LittleEndian(e.bytes)))
    ELSE Err(FamilyCodeError(e.bytes[1]))

\* C11: the iterator search returns yields exactly one item for each item
\* of the transport's search, in the same order: Ok(address) when the family
\* code (the least significant byte) is 0x28, Err(FamilyCode(code)) carrying
\* the foreign code otherwise, and the transport's error when the item is
\* an error; every Ok address has the family code 0x28.
C11_SearchYieldsOnePerItem ==
    (ret # None /\ ret.op = "search_next") =>
        /\ Len(ret.res) = Len(TransportItems)
        /\ \A i \in 1..Len(TransportItems) :
             ret.res[i] = ExpectedItem(TransportItems[i])
        /\ \A i \in 1..Len(ret.res) :
             IsOk(ret.res[i]) => ret.res[i].val.address[8] = 40

\* a foreign device was found first and reported, a DS18B20 after it
C11_Witness ==
    /\ ret # None /\ ret.op = "search_next"
    /\ Len(TransportItems) = 2
    /\ ret.res = << Err(FamilyCodeError(16)),
                    Ok(OWAddress(<<35, 0, 0, 4, 110, 175, 188, 40>>)) >>

(***************************************************************************)
(* The reserved operations                                                 *)
(***************************************************************************)

ReservedOperations ==
    {"search_alarm", "load_scratchpad", "save_scratchpad", "read_power_supply"}

\* C12: search_alarm, load_scratchpad, save_scratchpad and
\* read_power_supply fail with an error returned to the caller as an error
\* value, write nothing to the transport, and leave the caller able to
\* continue.  The code does not do this: each is todo!(), which panics.
C12_ReservedReturnsError ==
    (ret # None /\ ret.op \in ReservedOperations) =>
        /\ IsErr(ret.res)
        /\ LastEvents = <<>>
        /\ phase # "Panicked"

\* what the reserved operations do keep: nothing reaches the transport
C12_ReservedWritesNothing ==
    (ret # None /\ ret.op \in ReservedOperations) => LastEvents = <<>>

(***************************************************************************)
(* read_rom                                                                *)
(***************************************************************************)

\* C13: read_rom writes the single byte 0x33, then reads 8 bytes, and
\* returns Ok(address) iff both transport calls succeed and the CRC8 of the
\* 8 bytes is zero, the address being the little-endian 64-bit value of the
\* bytes (byte 0 = family code); on a nonzero CRC it returns a CRC error and
\* no address; in every outcome the caller is left with no memory-phase
\* object.
C13_ReadRom ==
    (ret # None /\ ret.op = "read_rom") =>
        LET es == LastEvents
            bothOk == Len(es) = 2 /\ es[1].ok /\ es[2].ok
        IN  /\ Len(es) \in {1, 2}
            /\ es[1].op = "write" /\ es[1].bytes = <<51>>
            /\ Len(es) = 2 <=> es[1].ok
            /\ Len(es) = 2 => es[2].op = "read" /\ Len(es[2].bytes) = 8
            /\ IsOk(ret.res) <=> (bothOk /\ RefCrc(es[2].bytes) = 0)
            /\ IsOk(ret.res) =>
                 /\ ret.res.val.address = LittleEndian(es[2].bytes)
                 /\ ret.res.val.address[8] = es[2].bytes[1]
            /\ (bothOk /\ RefCrc(es[2].bytes) # 0) =>
                 ret.res = Err(CrcError(RefCrc(es[2].bytes)))
            /\ ~bothOk => ret.res = Err(EspError)
            /\ phase = "Idle"

\* the address 0x230000046eafbc28 was read from the bus
C13_Witness ==
    /\ ret # None /\ ret.op = "read_rom" /\ IsOk(ret.res)
    /\ LastEvents[2].bytes = <<40, 188, 175, 110, 4, 0, 0, 35>>
    /\ ret.res.val = OWAddress(<<35, 0, 0, 4, 110, 175, 188, 40>>)

(***************************************************************************)
(* Transport errors                                                        *)
(***************************************************************************)

\* the operations that call the transport, and the calls each makes when
\* none fails
TransportCalls ==
    [initialization |-> 1, read_rom |-> 2, match_rom |-> 1, skip_rom |-> 1,
     read_scratchpad |-> 2, write_scratchpad |-> 2, convert_temperature |-> 1,
     temperature |-> 7]

\* the transport calls of the last operation (its sleeps left out)
LastCalls == SelectSeq(LastEvents, LAMBDA e : e.op \in {"reset", "write", "read"})

\* C16: in initialization, read_rom, match_rom, skip_rom, read_scratchpad,
\* write_scratchpad, convert_temperature and temperature the first transport
\* call that fails makes the operation return that transport error: nothing
\* (no call, no wait) follows the failed call, no call is made again, and a
\* transport error is returned only for a call that failed; a failed reset
\* yields no Rom and a failed selection write yields no Ram.
C16_FirstFailureReturned ==
    (ret # None /\ ret.op \in DOMAIN TransportCalls) =>
        LET es == LastEvents
            failed == {i \in 1..Len(es) : ~es[i].ok}
        IN  /\ Len(LastCalls) \in 1..TransportCalls[ret.op]
            /\ failed \subseteq {Len(es)}
            /\ failed # {} <=> ret.res = Err(EspError)
            /\ failed = {} => Len(LastCalls) = TransportCalls[ret.op]
            /\ failed # {} => phase = "Idle"

\* temperature stopped at its second reset, which failed
C16_Witness ==
    /\ ret # None /\ ret.op = "temperature" /\ ret.res = Err(EspError)
    /\ Len(LastCalls) = 4
    /\ LastCalls[4].op = "reset" /\ ~LastCalls[4].ok
    /\ LastCalls[1].ok /\ LastCalls[2].ok /\ LastCalls[3].ok

(***************************************************************************)
(* One command sequence at a time                                          *)
(***************************************************************************)

\* where the event e takes a bus that is in the position at: "Idle" (no
\* sequence open), "Rom" (reset done), "Ram" (device selected), "Search"
\* (enumeration open), or in the middle of an operation that has one more
\* step to make; "Broken" when e cannot follow, and from then on
After(at, e) ==
    LET open == at \in {"Idle", "Rom", "Ram", "Search"}
        to(next) == IF e.ok THEN next ELSE "Idle"
    IN  CASE e.op = "reset" /\ open -> to("Rom")
          [] e.op = "search" /\ open -> to("Search")
          [] e.op = "search_next" /\ at = "Search" -> "Search"
          [] e.op = "write" /\ at = "Rom" /\ e.bytes = <<51>> -> to("Read8")
          [] e.op = "write" /\ at = "Rom" /\ e.bytes = <<204>> -> to("Ram")
          [] e.op = "write" /\ at = "Rom" /\ Len(e.bytes) = 9 /\ e.bytes[1] = 85 ->
                to("Ram")
          [] e.op = "write" /\ at = "Ram" /\ e.bytes = <<78>> -> to("Write3")
          [] e.op = "write" /\ at = "Ram" /\ e.bytes = <<190>> -> to("Read9")
          [] e.op = "write" /\ at = "Ram" /\ e.bytes = <<68>> -> to("Sleep")
          [] e.op = "read" /\ at = "Read8" /\ Len(e.bytes) = 8 -> "Idle"
          [] e.op = "read" /\ at = "Read9" /\ Len(e.bytes) = 9 -> "Idle"
          [] e.op = "write" /\ at = "Write3" /\ Len(e.bytes) = 3 -> "Idle"
          [] e.op = "sleep" /\ at = "Sleep" -> "Idle"
          [] OTHER -> "Broken"

\* the position the first n events of the trace leave the bus in
RECURSIVE Position(_)
Position(n) == IF n = 0 THEN "Idle" ELSE After(Position(n - 1), trace[n])

\* C17: no two command sequences interleave: while a phase object (or the
\* Ram derived from it) is held, no other operation of the facade (search,
\* temperature, another initialization) issues a transport call, so the
\* transport trace is a concatenation of reset/select/command sequences,
\* each left only by its end, by a failure or by the drop of its phase
\* object, and the object held is the one the last sequence reached.
C17_SequencesDoNotInterleave ==
    LET at == Position(Len(trace))
    IN  /\ at \in {"Idle", "Rom", "Ram", "Search"}
        /\ phase \in {"Rom", "Ram", "Search"} => at = phase
        /\ phase = "Panicked" => at \in {"Rom", "Ram"}

\* an enumeration, then a whole reset/match/read sequence for a device
C17_Witness ==
    /\ Len(trace) >= 6
    /\ trace[1].op = "search" /\ trace[1].ok
    /\ trace[2].op = "search_next" /\ trace[3].op = "reset"
    /\ ret # None /\ ret.op = "read_scratchpad" /\ IsOk(ret.res)

(***************************************************************************)
(* The order of the checks of read_scratchpad                              *)
(***************************************************************************)

\* C18: read_scratchpad checks the CRC before it decodes the configuration
\* register: a buffer whose CRC is nonzero gives a CRC error whatever its
\* byte 4 is; a buffer whose CRC is zero and whose byte 4 is none of the
\* four valid patterns gives Error::ConfigurationRegister carrying byte 4
\* and no Scratchpad; so the all-zero buffer, whose CRC is 0, is rejected
\* with configuration_register = 0.
C18_CrcBeforeConfiguration ==
    (/\ ret # None /\ ret.op = "read_scratchpad"
     /\ Len(LastEvents) = 2 /\ LastEvents[2].ok) =>
        LET buffer == LastEvents[2].bytes
            crc == RefCrc(buffer)
        IN  /\ crc # 0 => ret.res = Err(CrcError(crc))
            /\ (crc = 0 /\ buffer[5] \notin {31, 63, 95, 127}) =>
                  ret.res = Err(ConfigurationRegisterError(buffer[5]))
            /\ buffer = <<0, 0, 0, 0, 0, 0, 0, 0, 0>> =>
                  ret.res = Err(ConfigurationRegisterError(0))

\* a buffer failing both checks was read and reported as a CRC error
C18_Witness ==
    /\ ret # None /\ ret.op = "read_scratchpad"
    /\ Len(LastEvents) = 2 /\ LastEvents[2].ok
    /\ LastEvents[2].bytes = <<99, 1, 75, 70, 0, 255, 13, 16, 21>>
    /\ IsErr(ret.res) /\ ret.res.val.err = "Crc"

(***************************************************************************)
(* The selection commands                                                  *)
(***************************************************************************)

\* C19: match_rom makes one transport call, the write of 0x55 followed by
\* the 8 bytes of the address, least significant byte (the family code)
\* first; skip_rom makes one transport call, the write of the single byte
\* 0xCC; each returns a Ram iff its write succeeded, and the transport's
\* error otherwise; neither reads or resets.
C19_SelectionBytes ==
    (ret # None /\ ret.op \in {"match_rom", "skip_rom"}) =>
        LET es == LastEvents
        IN  /\ Len(es) = 1
            /\ es[1].op = "write"
            /\ ret.op = "match_rom" =>
                  /\ es[1].bytes = <<85>> \o LittleEndian(ret.arg.address)
                  /\ es[1].bytes[2] = ret.arg.address[8]
            /\ ret.op = "skip_rom" => es[1].bytes = <<204>>
            /\ IsOk(ret.res) <=> es[1].ok
            /\ IsOk(ret.res) => ret.res.val = [obj |-> "Ram"]
            /\ ~es[1].ok => (ret.res = Err(EspError) /\ phase = "Idle")

\* the device 0x4500000088204e28 was selected
C19_Witness ==
    /\ ret # None /\ ret.op = "match_rom" /\ IsOk(ret.res)
    /\ phase = "Ram"
    /\ LastEvents = << Event("write", <<85, 40, 78, 32, 136, 0, 0, 0, 69>>, TRUE, 0) >>

(***************************************************************************)
(* write_scratchpad                                                        *)
(***************************************************************************)

\* the three bytes the claim expects for a scratchpad: its two alarm
\* triggers as unsigned bytes, and the pattern of its resolution
WritableBytes(scratchpad) ==
    << (scratchpad.alarm_high_trigger_register + 256) % 256,
       (scratchpad.alarm_low_trigger_register + 256) % 256,
       CASE scratchpad.configuration_register.resolution = "Nine" -> 31
         [] scratchpad.configuration_register.resolution = "Ten" -> 63
         [] scratchpad.configuration_register.resolution = "Eleven" -> 95
         [] scratchpad.configuration_register.resolution = "Twelve" -> 127 >>

\* C20: write_scratchpad writes the command code 0x4E and then, in a second
\* write, exactly the 3 bytes alarm-high, alarm-low, configuration byte, and
\* makes no other transport call; the bytes depend on nothing else of the
\* scratchpad (not on temperature, not on crc); when the write of the
\* command code fails the 3 bytes are not sent.
C20_WriteScratchpadBytes ==
    (ret # None /\ ret.op = "write_scratchpad") =>
        LET es == LastEvents
        IN  /\ Len(es) \in {1, 2}
            /\ es[1] = Event("write", <<78>>, es[1].ok, 0)
            /\ ~es[1].ok => (Len(es) = 1 /\ ret.res = Err(EspError))
            /\ es[1].ok =>
                  /\ Len(es) = 2
                  /\ es[2] = Event("write", WritableBytes(ret.arg), es[2].ok, 0)
                  /\ ret.res = IF es[2].ok THEN Ok(Unit) ELSE Err(EspError)

\* a scratchpad read back earlier (temperature -0.5, crc 234) was written:
\* only its three writable bytes went out
C20_Witness ==
    /\ ret # None /\ ret.op = "write_scratchpad" /\ IsOk(ret.res)
    /\ ret.arg.crc = 234 /\ ret.arg.temperature # I16AsF32(0)
    /\ Len(LastEvents) = 2
    /\ LastEvents[2].bytes = <<30, 10, 127>>

(***************************************************************************)
(* convert_temperature                                                     *)
(***************************************************************************)

\* the configuration bytes written to a device before the last operation
ConfiguredBefore ==
    { trace[i].bytes[3] : i \in { k \in 1..mark :
          trace[k].op = "write" /\ trace[k].ok /\ Len(trace[k].bytes) = 3 } }

\* C21: convert_temperature writes the single byte 0x44 and, only if that
\* write succeeded, waits once for the maximum conversion time (750 ms, the
\* time of 12 bits) whatever resolution was configured, then returns Ok;
\* when the write fails it returns the error and does not wait.
C21_ConvertWaitsAfterWrite ==
    (ret # None /\ ret.op = "convert_temperature") =>
        LET es == LastEvents
        IN  /\ Len(es) \in {1, 2}
            /\ es[1] = Event("write", <<68>>, es[1].ok, 0)
            /\ es[1].ok =>
                  /\ Len(es) = 2
                  /\ es[2] = Event("sleep", <<>>, TRUE, 750000000)
                  /\ es[2].ns = conversion_time("Twelve")
                  /\ ret.res = Ok(Unit)
            /\ ~es[1].ok => (Len(es) = 1 /\ ret.res = Err(EspError))

\* a device configured for 9 bits was converted, the wait was 750 ms
C21_Witness ==
    /\ ret # None /\ ret.op = "convert_temperature" /\ IsOk(ret.res)
    /\ ConfiguredBefore = {31}
    /\ Len(LastEvents) = 2
    /\ LastEvents[2].op = "sleep" /\ LastEvents[2].ns = 750000000
    /\ LastEvents[2].ns # conversion_time("Nine")

====
